---------------------------- MODULE Spec2Model ----------------------------
(***************************************************************************)
(* Model of the population-based TSP search engine of src/tsp.c:           *)
(* the order-representation decoder, the fitness evaluation, the ranking   *)
(* selection, the two-point crossover, the forced reinjection, the         *)
(* mutation and the time-bounded generational loop genetic_algorithm.      *)
(*                                                                         *)
(* Arrays are functions over 0-based index ranges, as in the C source.     *)
(* The two-dimensional buffers gene, gene_tmp and route are functions      *)
(* row -> (column -> int); a store a[r][c] with c outside the row is        *)
(* resolved on the flat row-major layout of the C array (operator store).  *)
(***************************************************************************)
EXTENDS Integers, Sequences, FiniteSets, TLC

VARIABLES
    pc,        \* position of genetic_algorithm (or of the function under test)
    n,         \* tspdata->n, also the local len
    timelim,   \* param->timelim
    elapsed,   \* cpu_time() - vdata->starttime, as last read by the loop test
    gen,       \* number of generations started (bounds the exploration)
    gene,      \* int gene[POPULATION][len]
    gene_tmp,  \* int gene_tmp[POPULATION][len]
    route,     \* int route[POPULATION][len]
    fitness,   \* int fitness[POPULATION]
    bestsol,   \* vdata->bestsol
    r          \* the individual drawn by the last call of mutation (0: none yet)

vars == <<pc, n, timelim, elapsed, gen, gene, gene_tmp, route, fitness, bestsol, r>>

----------------------------------------------------------------------------
(* Program constants *)

POPULATION == 20

\* the value ranking_selection writes over the fitness of a chromosome it has placed
SENTINEL == 1000000

\* the index p of rand_crossover
REINJECT == 3

\* the value of r1 that triggers rand_crossover
TRIGGER == 7

\* the modulus of the two draws r1 and r2
DRAWS == 20

\* the offset of the tail mutation's marker and of the end of its run
TAILGAP == 10

(* Bounds of the exploration *)

\* largest instance size of the generational loop
MaxN == 4

\* largest number of generations a run starts
MaxGen == 2

\* largest chromosome length given to a function checked on its own
MaxLen == 5

\* number of leading fitness entries chosen freely for ranking_selection on its own
FreeSlots == 3

Rows == 0 .. (POPULATION - 1)

Cols(len) == 0 .. (len - 1)

\* the time limits: 0 (the loop body never runs) and 1 clock unit; the loop
\* reads the clock only to compare it with the limit, and any number of
\* generations may run before the clock reaches a limit of one unit
TimeLimits == {0, 1}

\* what a read outside an array may return
Junk == {0, 99}

\* what the cells of the uninitialised buffer gene_tmp may hold
Garbage == {0, 1, 2}

----------------------------------------------------------------------------
(* Instance data: node k lies at (x(k), y(k)); the first four nodes are the *)
(* corners of a 4 x 3 rectangle in tour order.                              *)

x(k) == (IF (k % 4) \in {2, 3} THEN 4 ELSE 0) + 7 * (k \div 4)

y(k) == (IF (k % 4) \in {1, 2} THEN 3 ELSE 0) + 2 * (k \div 4)

\* (int)(sqrt(d2) + 0.5) for an integer d2 >= 0
round_sqrt(d2) ==
    CHOOSE s \in 0 .. d2 :
        /\ 4 * d2 < (2 * s + 1) * (2 * s + 1)
        /\ (s = 0 \/ (2 * s - 1) * (2 * s - 1) <= 4 * d2)

dist(k, l) ==
    round_sqrt((x(k) - x(l)) * (x(k) - x(l)) + (y(k) - y(l)) * (y(k) - y(l)))

RECURSIVE cost_loop(_, _, _, _)
\* the for loop of compute_cost from index k on; returns <<k at exit, cost>>
cost_loop(tour, len, k, cost) ==
    IF k < len - 1
    THEN IF tour[k + 1] < 0
         THEN <<k, cost>>
         ELSE cost_loop(tour, len, k + 1, cost + dist(tour[k], tour[k + 1]))
    ELSE <<k, cost>>

compute_cost(len, tour) ==
    LET e == cost_loop(tour, len, 0, 0)
    IN  e[2] + dist(tour[e[1]], tour[0])

RECURSIVE feasible_loop(_, _, _, _, _)
\* the second for loop of is_feasible; returns <<flag, num_visited>>
feasible_loop(tour, len, k, visited, num) ==
    IF k < len
    THEN IF tour[k] < 0 THEN <<1, num>>
         ELSE IF tour[k] >= len THEN <<0, num>>
         ELSE IF tour[k] \in visited THEN <<0, num>>
         ELSE feasible_loop(tour, len, k + 1, visited \cup {tour[k]}, num + 1)
    ELSE <<1, num>>

is_feasible(len, min_node_num, tour) ==
    LET e == feasible_loop(tour, len, 0, {}, 0)
    IN  IF e[2] < min_node_num THEN 0 ELSE e[1]

----------------------------------------------------------------------------
(* Chromosome codec *)

RECURSIVE shift_left(_, _, _)
\* for (i = j; i < n - 1; i++) a[i] = a[i + 1];
shift_left(a, i, len) ==
    IF i < len - 1
    THEN shift_left([a EXCEPT ![i] = a[i + 1]], i + 1, len)
    ELSE a

\* a copy_array that leaves the list as it is
copy_array_keep(a, len, j, junk) == a

\* copy_array(a, n, j): removes the entry at index j - 1; the first copy reads
\* a[n] (outside the array, junk) when j = n, and that cell is then set to 0
copy_array(a, len, j, junk) ==
    IF (j - 1) \in Cols(len)
    THEN LET a1 == [a EXCEPT ![j - 1] = IF j < len THEN a[j] ELSE junk]
             a2 == shift_left(a1, j, len)
         IN  [a2 EXCEPT ![len - 1] = 0]
    ELSE a

RECURSIVE decode_loop(_, _, _, _, _, _)
\* the inner for loop of order_representation for one chromosome g
decode_loop(g, len, j, order_list, rt, junk) ==
    IF j < len
    THEN LET k == g[j]
             v == IF (k - 1) \in Cols(len) THEN order_list[k - 1] ELSE junk
         IN  decode_loop(g, len, j + 1, copy_array(order_list, len, k, junk),
                         [rt EXCEPT ![j] = v], junk)
    ELSE rt

decode_row(g, len, old, junk) ==
    decode_loop(g, len, 0, [j \in Cols(len) |-> j + 1], old, junk)

order_representation(len, a, rt, junk) ==
    [i \in Rows |-> decode_row(a[i], len, rt[i], junk)]

evaluate_route(len, rt) ==
    [i \in Rows |-> compute_cost(len, [j \in Cols(len) |-> rt[i][j] - 1])]

----------------------------------------------------------------------------
(* Ranking selection *)

RECURSIVE min_loop(_, _, _)
min_loop(a, i, m) ==
    IF i < POPULATION
    THEN min_loop(a, i + 1, IF m > a[i] THEN a[i] ELSE m)
    ELSE m

min(a) == min_loop(a, 0, a[POPULATION - 1])

RECURSIVE FirstMatch(_, _, _)
FirstMatch(d, m, j) ==
    IF j >= POPULATION - 1 \/ d[j] = m THEN j ELSE FirstMatch(d, m, j + 1)

\* a scan that keeps the first index whose fitness is the minimum
first_match(d, m, j, idx) == FirstMatch(d, m, 0)

RECURSIVE last_match(_, _, _, _)
\* for (j = 0; j < POPULATION; j++) if (d[j] == m) idx = j;
last_match(d, m, j, idx) ==
    IF j < POPULATION
    THEN last_match(d, m, j + 1, IF d[j] = m THEN j ELSE idx)
    ELSE idx

RECURSIVE order_loop(_, _, _)
\* the outer loop of ranking_selection: the index idx chosen for each slot i
order_loop(d, i, ord) ==
    IF i < POPULATION
    THEN LET m   == min(d)
             idx == last_match(d, m, 0, IF i = 0 THEN 0 ELSE ord[i - 1])
         IN  order_loop([d EXCEPT ![idx] = SENTINEL], i + 1, [ord EXCEPT ![i] = idx])
    ELSE ord

ranking_order(a) == order_loop(a, 0, [i \in Rows |-> 0])

ranking_selection(a, len, b, c) ==
    LET ord == ranking_order(a)
    IN  [i \in Rows |-> [j \in Cols(len) |-> b[ord[i]][j]]]

----------------------------------------------------------------------------
(* Recombination and mutation *)

\* the split point of tow_point_crossover
cross_point(len) == IF len % 2 = 0 THEN (len \div 2) - 1 ELSE ((len + 1) \div 2) - 1

\* a crossover whose middle band ends one position early
tow_point_crossover_short(len, a, b) ==
    LET point == cross_point(len)
        lo    == (point \div 2) + 1
        hi    == point + (point \div 2)
    IN  [i \in Rows |-> [j \in Cols(len) |->
            IF j >= lo /\ j < hi
            THEN b[IF i % 2 = 0 THEN i + 1 ELSE i - 1][j]
            ELSE b[i][j]]]

\* tow_point_crossover(n, a, b): a is written from b pair by pair; the three
\* for loops cover the columns [0, lo), [lo, hi) and [hi, n); a column no loop
\* reaches keeps the value a had
tow_point_crossover(len, a, b) ==
    LET point == cross_point(len)
        lo    == (point \div 2) + 1
        hi    == (point + (point \div 2)) + 1
        mate(i) == IF i % 2 = 0 THEN i + 1 ELSE i - 1
    IN  [i \in Rows |-> [j \in Cols(len) |->
            IF 0 <= j /\ j < lo THEN b[i][j]
            ELSE IF lo <= j /\ j < hi THEN b[mate(i)][j]
            ELSE IF hi <= j /\ j < len THEN b[i][j]
            ELSE a[i][j]]]

\* a reinjection that overwrites the first slot instead of slot POPULATION - p
rand_crossover_front(len, a) ==
    [a EXCEPT ![0] = a[REINJECT]]

\* rand_crossover(n, a): row p is copied over row POPULATION - p
rand_crossover(len, a) ==
    [a EXCEPT ![POPULATION - REINJECT] = [i \in Cols(len) |-> a[REINJECT][i]]]

\* the store a[row][col] = v on the flat layout of int a[POPULATION][len]:
\* a column past the end of the row lands in a later row of the same array
store(a, len, row, col, v) ==
    LET flat == row * len + col
    IN  [a EXCEPT ![flat \div len][flat % len] = v]

RECURSIVE fill_ones(_, _, _, _, _)
\* for (i = from; i < to; i++) a[row][i] = 1;
fill_ones(a, len, row, from, to) ==
    IF from < to
    THEN fill_ones(store(a, len, row, from, 1), len, row, from + 1, to)
    ELSE a

\* the split point of mutation
mutation_point(len) == IF len % 2 = 0 THEN len \div 2 ELSE (len + 1) \div 2

\* mutation(n, a) once r is drawn
mutation(len, a, row) ==
    LET point == mutation_point(len)
    IN  IF row > POPULATION \div 2
        THEN store(fill_ones(a, len, row, 0, point), len, row, point, 2)
        ELSE store(fill_ones(a, len, row, point, len - TAILGAP), len, row,
                   point + TAILGAP, 2)

----------------------------------------------------------------------------
(* Inputs *)

\* a chromosome of length len: gene j lies in 1 .. len - j
IsChromosome(len, g) == \A j \in Cols(len) : 1 <= g[j] /\ g[j] <= len - j

Chromosomes(len) == {g \in [Cols(len) -> 1 .. len] : IsChromosome(len, g)}

\* the identity chromosome written over gene[0]
Ones(len) == [j \in Cols(len) |-> 1]

\* another chromosome, different from g wherever the range of the gene allows
Alt(len, g) == [j \in Cols(len) |-> (g[j] % (len - j)) + 1]

\* the rows create_matrix is taken to draw for the generational loop: genes of
\* the first half in {1, 2}, genes of the second half 1
SeedRows(len) ==
    {g \in Chromosomes(len) :
        \A j \in Cols(len) : g[j] <= 2 /\ (j >= len \div 2 => g[j] = 1)}

RECURSIVE fact(_)
fact(k) == IF k <= 1 THEN 1 ELSE k * fact(k - 1)

\* the idx-th chromosome of length len in mixed-radix order
NthChromosome(len, idx) ==
    [j \in Cols(len) |-> ((idx \div fact(len - 1 - j)) % (len - j)) + 1]

Zeros2(len) == [i \in Rows |-> [j \in Cols(len) |-> 0]]

Zeros1 == [i \in Rows |-> 0]

\* the fitness values given to ranking_selection on its own
FitnessValues == {3, 5, SENTINEL, SENTINEL + 1}

----------------------------------------------------------------------------
(* genetic_algorithm *)

\* lines 566-583: the population is drawn, gene[0] is set to the identity
\* chromosome and bestsol to the identity route; route, fitness and gene_tmp
\* are not initialised (route and fitness are written before they are read)
Init ==
    /\ pc = "test"
    /\ n \in 2 .. MaxN
    /\ timelim \in TimeLimits
    /\ elapsed = 0
    /\ gen = 0
    /\ \E c \in SeedRows(n) :
          gene = [i \in Rows |-> IF i = 0 THEN Ones(n) ELSE c]
    /\ \E g \in Garbage : gene_tmp = [i \in Rows |-> [j \in Cols(n) |-> g]]
    /\ route = Zeros2(n)
    /\ fitness = Zeros1
    /\ bestsol = [i \in Cols(n) |-> i]
    /\ r = 0

\* the clock moves on between two tests of the loop condition
Advance ==
    /\ pc = "test"
    /\ elapsed < timelim
    /\ elapsed' = elapsed + 1
    /\ UNCHANGED <<pc, n, timelim, gen, gene, gene_tmp, route, fitness, bestsol, r>>

\* a loop test that starts a generation whatever the clock says
EnterLate ==
    /\ pc = "test"
    /\ gen < MaxGen
    /\ pc' = "decode"
    /\ gen' = gen + 1
    /\ UNCHANGED <<n, timelim, elapsed, gene, gene_tmp, route, fitness, bestsol, r>>

\* line 584, condition true: a generation starts
Enter ==
    /\ pc = "test"
    /\ elapsed < timelim
    /\ gen < MaxGen
    /\ pc' = "decode"
    /\ gen' = gen + 1
    /\ UNCHANGED <<n, timelim, elapsed, gene, gene_tmp, route, fitness, bestsol, r>>

\* line 585
Decode ==
    /\ pc = "decode"
    /\ \E junk \in Junk : route' = order_representation(n, gene, route, junk)
    /\ pc' = "evaluate"
    /\ UNCHANGED <<n, timelim, elapsed, gen, gene, gene_tmp, fitness, bestsol, r>>

\* line 586
Evaluate ==
    /\ pc = "evaluate"
    /\ fitness' = evaluate_route(n, route)
    /\ pc' = "select"
    /\ UNCHANGED <<n, timelim, elapsed, gen, gene, gene_tmp, route, bestsol, r>>

\* line 587
Select ==
    /\ pc = "select"
    /\ gene_tmp' = ranking_selection(fitness, n, gene, gene_tmp)
    /\ pc' = "breed"
    /\ UNCHANGED <<n, timelim, elapsed, gen, gene, route, fitness, bestsol, r>>

\* lines 589-600: the two draws, the reinjection when r1 is 7, the crossover,
\* and the test r1 == r2 that decides whether mutation is called; d holds what
\* the code tests of a pair of draws: <<r1 == 7, r1 == r2>>
Breed ==
    /\ pc = "breed"
    /\ \E d \in {<<r1 = TRIGGER, r1 = r2>> :
                     r1 \in 0 .. (DRAWS - 1), r2 \in 0 .. (DRAWS - 1)} :
          LET tmp == IF d[1] THEN rand_crossover(n, gene_tmp) ELSE gene_tmp
          IN  /\ gene_tmp' = tmp
              /\ gene' = tow_point_crossover(n, gene, tmp)
              /\ pc' = IF d[2] THEN "mutate" ELSE "test"
    /\ UNCHANGED <<n, timelim, elapsed, gen, route, fitness, bestsol, r>>

\* lines 600-603 and 521: mutation draws r in 1 .. POPULATION - 1
Mutate ==
    /\ pc = "mutate"
    /\ \E row \in 1 .. (POPULATION - 1) :
          /\ r' = row
          /\ gene' = mutation(n, gene, row)
    /\ pc' = "test"
    /\ UNCHANGED <<n, timelim, elapsed, gen, gene_tmp, route, fitness, bestsol>>

\* line 584, condition false, and lines 607-611: slot 0 of gene_tmp is decoded
\* into bestsol
Exit ==
    /\ pc = "test"
    /\ ~(elapsed < timelim)
    /\ \E junk \in Junk :
          LET rt == order_representation(n, gene_tmp, route, junk)
          IN  /\ route' = rt
              /\ bestsol' = [i \in Cols(n) |-> rt[0][i] - 1]
    /\ pc' = "done"
    /\ UNCHANGED <<n, timelim, elapsed, gen, gene, gene_tmp, fitness, r>>

Next ==
    \/ Advance
    \/ Enter
    \/ Decode
    \/ Evaluate
    \/ Select
    \/ Breed
    \/ Mutate
    \/ Exit

Spec == Init /\ [][Next]_vars

\* the positions of genetic_algorithm
Positions == {"test", "decode", "evaluate", "select", "breed", "mutate", "done"}

\* the single thread of the program takes its next step: every statement of
\* the loop (each a bounded for loop over the buffers) terminates
Proceed == pc # "done" /\ pc' \in Positions

\* the program keeps running until it is done, and the clock, which the loop
\* test reads again and again, reaches the limit
FairSpec == Spec /\ WF_pc(Proceed) /\ SF_vars(Advance)

----------------------------------------------------------------------------
(* The functions on their own: each specification below draws the          *)
(* arguments of one call from a bounded set and performs that call.        *)

\* a population of two alternating chromosomes
Striped(len, c, d) == [i \in Rows |-> IF i % 2 = 0 THEN c ELSE d]

\* order_representation(len, gene, route) on every chromosome of length len
InitDecode ==
    /\ pc = "decode"
    /\ n \in 1 .. MaxLen
    /\ timelim = 0
    /\ elapsed = 0
    /\ gen = 0
    /\ \E c \in Chromosomes(n) : gene = Striped(n, c, Alt(n, c))
    /\ gene_tmp = Zeros2(n)
    /\ route = Zeros2(n)
    /\ fitness = Zeros1
    /\ bestsol = [i \in Cols(n) |-> i]
    /\ r = 0

SpecDecode == InitDecode /\ [][Decode]_vars

\* the length of the chromosomes given to ranking_selection on its own
SelectLen == 4

\* ranking_selection(fitness, len, gene, gene_tmp) on a population of pairwise
\* different chromosomes and a fitness vector whose first FreeSlots entries
\* and whose remaining entries (all equal) range over FitnessValues
InitSelect ==
    /\ pc = "select"
    /\ n = SelectLen
    /\ timelim = 0
    /\ elapsed = 0
    /\ gen = 0
    /\ gene = [i \in Rows |-> NthChromosome(n, i)]
    /\ gene_tmp = Zeros2(n)
    /\ route = Zeros2(n)
    /\ \E v \in [0 .. (FreeSlots - 1) -> FitnessValues], base \in FitnessValues :
          fitness = [i \in Rows |-> IF i < FreeSlots THEN v[i] ELSE base]
    /\ bestsol = [i \in Cols(n) |-> i]
    /\ r = 0

SpecSelect == InitSelect /\ [][Select]_vars

\* line 598 alone
Cross ==
    /\ pc = "cross"
    /\ gene' = tow_point_crossover(n, gene, gene_tmp)
    /\ pc' = "crossed"
    /\ UNCHANGED <<n, timelim, elapsed, gen, gene_tmp, route, fitness, bestsol, r>>

\* tow_point_crossover(len, gene, gene_tmp) on pairs of chromosomes that differ
\* wherever they can; gene holds the parents, either as they are or swapped
InitCross ==
    /\ pc = "cross"
    /\ n \in 1 .. MaxLen
    /\ timelim = 0
    /\ elapsed = 0
    /\ gen = 0
    /\ \E c \in Chromosomes(n) :
          /\ gene_tmp = Striped(n, c, Alt(n, c))
          /\ gene \in {Striped(n, c, Alt(n, c)), Striped(n, Alt(n, c), c)}
    /\ route = Zeros2(n)
    /\ fitness = Zeros1
    /\ bestsol = [i \in Cols(n) |-> i]
    /\ r = 0

SpecCross == InitCross /\ [][Cross]_vars

----------------------------------------------------------------------------
(* Properties *)

Identity(len) == [i \in Cols(len) |-> i]

\* C1: when genetic_algorithm is done, bestsol holds n pairwise different node
\* indices of 0 .. n-1, and is_feasible accepts it for every min_node_num <= n
C1_FeasibleAtDone ==
    pc = "done" =>
        /\ \A i \in Cols(n) : bestsol[i] \in Cols(n)
        /\ \A i, j \in Cols(n) : i # j => bestsol[i] # bestsol[j]
        /\ \A m \in 0 .. n : is_feasible(n, m, bestsol) = 1

\* C2: the route emitted when genetic_algorithm is done costs no more than
\* the identity route bestsol was initialised to
C2_NoWorseThanIdentity ==
    pc = "done" => compute_cost(n, bestsol) <= compute_cost(n, Identity(n))

\* C3: at every generation boundary (the loop test) the population holds
\* POPULATION chromosomes of n genes with 1 <= gene[j] <= n - j
C3_RangeInvariant ==
    pc = "test" =>
        /\ DOMAIN gene = Rows
        /\ \A i \in Rows : DOMAIN gene[i] = Cols(n) /\ IsChromosome(n, gene[i])

\* what C4 says of single steps: DONE is never left, a generation starts only
\* from the loop test and only when elapsed < timelim, and a started generation
\* goes through decode, evaluate, sort and recombine, then mutates or not, back
\* to the loop test
C4_Steps ==
    /\ pc = "done" => pc' = "done"
    /\ pc' = "decode" => pc = "test" /\ elapsed < timelim /\ elapsed' = elapsed
    /\ pc = "decode" => pc' = "evaluate"
    /\ pc = "evaluate" => pc' = "select"
    /\ pc = "select" => pc' = "breed"
    /\ pc = "breed" => pc' \in {"mutate", "test"}
    /\ pc = "mutate" => pc' = "test"
    /\ elapsed' >= elapsed

\* C4: with a clock that reaches the limit, the controller reaches DONE and
\* stays there; the elapsed time is tested once per generation, before the
\* generation starts, a generation starts only when elapsed < timelim, and a
\* started generation runs all its steps before the next test
C4_TimeBoundedLoop ==
    /\ <>(pc = "done")
    /\ [][C4_Steps]_vars
    /\ \A p \in {"decode", "evaluate", "select", "breed", "mutate"} :
          (pc = p) ~> (pc = "test")

C4_Witness == pc = "done" /\ gen = 2 /\ timelim = 1 /\ elapsed = 1

\* the k-th smallest element of the set S
KthSmallest(S, k) == CHOOSE v \in S : Cardinality({u \in S : u < v}) = k - 1

\* C5: order_representation turns every chromosome with gene[j] in 1 .. n-j
\* into a permutation of 1 .. n in which route[j] is the gene[j]-th smallest
\* label not placed at an earlier position
C5_DecodeIsPermutation ==
    pc = "evaluate" =>
        \A i \in Rows :
            IsChromosome(n, gene[i]) =>
                /\ {route[i][j] : j \in Cols(n)} = 1 .. n
                /\ \A j \in Cols(n) :
                      route[i][j] =
                          KthSmallest((1 .. n) \ {route[i][k] : k \in 0 .. (j - 1)},
                                      gene[i][j])

C5_Witness ==
    /\ pc = "evaluate"
    /\ n = 4
    /\ gene[0] = [j \in Cols(4) |-> 4 - j]
    /\ route[0] = [j \in Cols(4) |-> 4 - j]
    /\ route[1] = [j \in Cols(4) |-> j + 1]

\* the input position of the chromosome in output slot k (the chromosomes
\* given to ranking_selection on its own are pairwise different)
Source(k) == CHOOSE i \in Rows : gene[i] = gene_tmp[k]

\* C6: after ranking_selection the output buffer is a permutation of the input
\* population and its fitness values are non-decreasing by position
C6_SortedPermutation ==
    pc = "breed" =>
        /\ \A i \in Rows : Cardinality({k \in Rows : gene_tmp[k] = gene[i]}) = 1
        /\ \A k \in Rows : \E i \in Rows : gene_tmp[k] = gene[i]
        /\ \A k, l \in Rows : k < l => fitness[Source(k)] <= fitness[Source(l)]

\* C7: child i takes the genes of parent i at positions [0, p/2] and
\* (p + p/2, n) and those of parent i+1 at positions (p/2, p + p/2], child i+1
\* the mirror image, with p = n/2 - 1 for even n and ceil(n/2) - 1 for odd n
C7_CrossoverBands ==
    pc = "crossed" =>
        LET p == IF n % 2 = 0 THEN (n \div 2) - 1 ELSE ((n + 1) \div 2) - 1
            h == p \div 2
            Outer(j) == j <= h \/ j > p + h
        IN  \A i \in {k \in Rows : k % 2 = 0} : \A j \in Cols(n) :
                /\ gene[i][j] =
                      IF Outer(j) THEN gene_tmp[i][j] ELSE gene_tmp[i + 1][j]
                /\ gene[i + 1][j] =
                      IF Outer(j) THEN gene_tmp[i + 1][j] ELSE gene_tmp[i][j]

C7_Witness ==
    /\ pc = "crossed"
    /\ n = 5
    /\ gene_tmp[0] = [j \in Cols(5) |-> 1]
    /\ gene_tmp[1] = [j \in Cols(5) |-> IF j = 4 THEN 1 ELSE 2]
    /\ gene[0] = [j \in Cols(5) |-> IF j \in {2, 3} THEN 2 ELSE 1]
    /\ gene[1] = [j \in Cols(5) |-> IF j \in {0, 1} THEN 2 ELSE 1]

C9_MutationFrame ==
    [][pc = "mutate" => \A i \in Rows \ {r'} : gene'[i] = gene[i]]_vars

\* C10: once a generation has been ranked, slot 0 of the sorted buffer decodes
\* to a route whose cost is the minimum of that generation's fitness vector, it
\* is a chromosome of the evaluated population, it stays so through the
\* reinjection, the crossover and the mutation of the tick, and it is the
\* route written to bestsol when genetic_algorithm is done
C10_BestIsMinimum ==
    (gen >= 1 /\ pc \in {"breed", "mutate", "test", "done"}) =>
        \A junk \in Junk :
            LET rt   == decode_row(gene_tmp[0], n, route[0], junk)
                tour == [j \in Cols(n) |-> rt[j] - 1]
                c    == compute_cost(n, tour)
            IN  /\ \A i \in Rows : c <= fitness[i]
                /\ \E i \in Rows : c = fitness[i]
                /\ pc = "breed" =>
                      \E i \in Rows : gene[i] = gene_tmp[0] /\ fitness[i] = c
                /\ pc = "done" => bestsol = tour

C10_Witness ==
    /\ pc = "done"
    /\ gen = 2
    /\ r > 0
    /\ bestsol # Identity(n)
    /\ is_feasible(n, n, bestsol) = 1
    /\ \E i \in Rows : compute_cost(n, bestsol) < fitness[i]

============================================================================
